---- MODULE Spec2Model ----
(***************************************************************************)
(* State-machine model of the oicana axum example service:                 *)
(*   src/src/blob.rs         two-tier blob store (DashMap cache + ./blobs)  *)
(*   src/src/template.rs     template registry and compile/preview/reset    *)
(*   src/src/certificate.rs  fixed "certificate" flow                       *)
(*   src/src/main.rs         process start (blob cache, warm-up)            *)
(*                                                                         *)
(* Each request handler is a process occupying one worker slot.  Handler   *)
(* bodies have no await point after extraction, so a handler is a          *)
(* sequence of steps separated only at accesses to shared state: the       *)
(* DashMap shard locks of the template registry, the blob cache and the    *)
(* blobs directory.                                                        *)
(***************************************************************************)
EXTENDS Integers, Sequences, FiniteSets, TLC

\* ---------------------------------------------------------------- bounds
NumWorkers  == 2   \* concurrently handled requests
CatalogSize == 2   \* how many entries of TEMPLATES the modelled catalog keeps
NumShards   == 2   \* shards of the registry DashMap
MaxUploads  == 1   \* identifiers Uuid::new_v4 can still produce
MaxBlobInputs == 2 \* length of a payload's blobInputs list
MaxJsonInputs == 2 \* length of a payload's jsonInputs list

\* ------------------------------------------------------ program constants
DEFAULT_BLOB_UUID == 0
OK == 200
NO_CONTENT == 204
BAD_REQUEST == 400
NOT_FOUND == 404
INTERNAL_SERVER_ERROR == 500
\* a panicking handler produces no response at all
ABORTED == 0 - 1
NoStatus == 0

TEMPLATES ==
  << "accessibility", "certificate", "dependency", "fonts", "invoice",
     "invoice_zugferd", "minimal", "table", "multi_input" >>

\* the catalog the model iterates over: a prefix of TEMPLATES
Catalog == SubSeq(TEMPLATES, 1, CatalogSize)
CatalogIds == { Catalog[k] : k \in 1..Len(Catalog) }

\* identifiers a client puts in the request path; one that is not live
\* (never loaded, or reset) takes the path of any unknown identifier
TargetIds == CatalogIds

Workers == 1..NumWorkers
Shards == 0..(NumShards - 1)
NoHolder == 0

\* blob identifiers: the nil uuid, the uuids new_v4 can produce, and one
\* uuid that is never produced
GenIds == 1..MaxUploads
UnknownBlob == MaxUploads + 1
BlobIds == {DEFAULT_BLOB_UUID} \cup GenIds \cup {UnknownBlob}

\* the bytes of the default blob; an upload may carry the same bytes
Logo == <<1>>
Datas == { <<>>, <<1>> }
BlobKeys == {"logo"}

BlobInput == [key : BlobKeys, blob_id : BlobIds]

\* proper prefixes of a byte sequence: what a write that fails midway leaves
ProperPrefixes(d) == { SubSeq(d, 1, n) : n \in 0..(Len(d) - 1) }

VARIABLES
  template_cache,  \* registry: live template id -> instance state
  shardOf,         \* template id -> shard of the registry DashMap (per-run hasher)
  shardLock,       \* shard -> worker holding its write lock, or NoHolder
  storage,         \* volatile blob cache: blob id -> bytes
  disk,            \* ./blobs directory: blob id -> bytes
  req,             \* worker slot -> request being handled
  uploaded,        \* history: blob id -> bytes of every upload answered 200
  startup,         \* the process start: position of the warm-up loop, ./templates
  assembly         \* one handler's input set while it is put together

vars == << template_cache, shardOf, shardLock, storage, disk, req, uploaded,
           startup, assembly >>

\* ------------------------------------------------------------- helpers
Has(f, k) == k \in DOMAIN f
Put(f, k, v) == [x \in DOMAIN f \cup {k} |-> IF x = k THEN v ELSE f[x]]
Del(f, k) == [x \in DOMAIN f \ {k} |-> f[x]]
EmptyMap == [x \in {} |-> 0]

NoErr == [kind |-> "None", template_id |-> "", blob_id |-> 0 - 1]

Idle ==
  [ kind |-> "idle", pc |-> "idle", id |-> "", blob_inputs |-> <<>>, i |-> 0,
    inputs |-> <<>>, data |-> <<>>, bid |-> 0 - 1, status |-> NoStatus,
    err |-> NoErr, compiled |-> FALSE, exported |-> FALSE, fault |-> FALSE,
    mark |-> FALSE, healed |-> FALSE, body |-> <<>> ]

\* ----------------------------------------------------------- template.rs
\* warmed_up_templates: one pass over the catalog; an entry whose archive
\* fails to open or to load is skipped, the others are inserted
RECURSIVE WarmFrom(_, _, _)
WarmFrom(k, ok, cache) ==
  IF k > Len(Catalog) THEN cache
  ELSE IF Catalog[k] \in ok
       THEN WarmFrom(k + 1, ok, Put(cache, Catalog[k], [dirty |-> FALSE]))
       ELSE WarmFrom(k + 1, ok, cache)

\* the process is up: warm-up has returned and requests are served
Serving == [pc |-> "serving"]
\* no handler is putting an input set together
NoAssembly == [pc |-> "none"]

warmed_up_templates(ok) == WarmFrom(1, ok, EmptyMap)

\* a start that loads every file of ./blobs into the cache
initialize_blob_storage_preload(d, readable) == d

\* blob.rs initialize_blob_storage: the cache starts with the default blob
\* when ./blobs/<nil uuid> can be read, and empty otherwise
initialize_blob_storage(d, readable) ==
  IF Has(d, DEFAULT_BLOB_UUID) /\ readable
  THEN Put(EmptyMap, DEFAULT_BLOB_UUID, d[DEFAULT_BLOB_UUID])
  ELSE EmptyMap

\* a registry behind one coarse lock: every key in shard 0
ShardGlobal(id) == 0
\* DashMap picks the shard from the key's hash; the hasher is seeded per run
Shard(id) == shardOf[id]

\* a lookup that hands out the entry without waiting for the lock
LockFreeAlways(s) == TRUE
\* DashMap::get_mut / remove wait until the shard's write lock is free
LockFree(s) == shardLock[s] = NoHolder

ShardAssignments == { f \in [TargetIds -> Shards] : f[Catalog[1]] = 0 }

\* main.rs:47-51: process start builds the blob cache, then warms the registry
BootStates(d) ==
  { [tc |-> warmed_up_templates(ok), so |-> f, st |-> initialize_blob_storage(d, readable)] :
      ok \in SUBSET CatalogIds, f \in ShardAssignments, readable \in BOOLEAN }

Init ==
  /\ disk \in { EmptyMap, Put(EmptyMap, DEFAULT_BLOB_UUID, Logo) }
  /\ \E b \in BootStates(disk) :
       /\ template_cache = b.tc
       /\ shardOf = b.so
       /\ storage = b.st
  /\ shardLock = [s \in Shards |-> NoHolder]
  /\ req = [w \in Workers |-> Idle]
  /\ uploaded = EmptyMap
  /\ startup = Serving
  /\ assembly = NoAssembly

\* a handler returns: its locals are dropped, the response remains
Respond(r, status, err) ==
  [Idle EXCEPT !.kind = req[r].kind, !.id = req[r].id, !.bid = req[r].bid,
               !.pc = "done", !.status = status, !.err = err,
               !.compiled = req[r].compiled, !.exported = req[r].exported]

\* worker slots are interchangeable: a request takes the lowest free one
FreeSlot(r) ==
  /\ req[r].pc = "idle"
  /\ \A w \in Workers : w < r => req[w].pc # "idle"

Release(r) == [s \in Shards |-> IF shardLock[s] = r THEN NoHolder ELSE shardLock[s]]

\* ------------------------------------------------ arrival of a request
\* POST /templates/{id}/compile and /preview with a CompilationPayload.
\* compile_template and preview_template are the same code up to the export
\* (template.rs:195-220 and 260-285), so one request kind "template" stands
\* for both and the output variant is drawn where they part, at Export
StartCompile(r) ==
  /\ FreeSlot(r)
  /\ \E id \in TargetIds :
       req' = [req EXCEPT ![r] = [Idle EXCEPT !.kind = "template", !.pc = "acquire", !.id = id]]
  /\ UNCHANGED << startup, assembly, template_cache, shardOf, shardLock, storage, disk, uploaded >>

\* POST /certificates: certificate.rs:127 fixes the template id
StartCertificate(r) ==
  /\ FreeSlot(r)
  /\ req' = [req EXCEPT ![r] = [Idle EXCEPT !.kind = "certificate", !.pc = "acquire",
                                  !.id = "certificate"]]
  /\ UNCHANGED << startup, assembly, template_cache, shardOf, shardLock, storage, disk, uploaded >>

\* POST /templates/{id}/reset
StartReset(r) ==
  /\ FreeSlot(r)
  /\ \E id \in TargetIds :
       req' = [req EXCEPT ![r] = [Idle EXCEPT !.kind = "reset", !.pc = "remove",
                                   !.id = id]]
  /\ UNCHANGED << startup, assembly, template_cache, shardOf, shardLock, storage, disk, uploaded >>

\* a listing built from the live registry instead of the static table
get_template_list_live == SelectSeq(Catalog, LAMBDA id : Has(template_cache, id))
\* get_template_list: the ids of TEMPLATES, in the order of the table
get_template_list == [k \in 1..Len(Catalog) |-> Catalog[k]]

\* GET /templates: the handler takes no state and answers in one step
StartList(r) ==
  /\ FreeSlot(r)
  /\ req' = [req EXCEPT ![r] = [Idle EXCEPT !.kind = "list", !.pc = "done",
                                  !.status = OK, !.body = get_template_list]]
  /\ UNCHANGED << startup, assembly, template_cache, shardOf, shardLock, storage, disk, uploaded >>

\* ------------------------------------------- compile / preview / certificate
\* a mapping that reports an absent template as a bad request
TemplateError_statusNotFound400(err) ==
  CASE err.kind = "NotFound" -> BAD_REQUEST
    [] err.kind = "BlobNotFound" -> BAD_REQUEST
    [] err.kind = "CompilationFailure" -> BAD_REQUEST
    [] err.kind = "ExportFailure" -> INTERNAL_SERVER_ERROR

\* TemplateError::into_response, template.rs:118-172: the status of each variant
TemplateError_status(err) ==
  CASE err.kind = "NotFound" -> NOT_FOUND
    [] err.kind = "BlobNotFound" -> BAD_REQUEST
    [] err.kind = "CompilationFailure" -> BAD_REQUEST
    [] err.kind = "ExportFailure" -> INTERNAL_SERVER_ERROR

\* TemplateError::into_response: the values the message text interpolates
TemplateError_message(err) ==
  CASE err.kind = "BlobNotFound" -> [templates |-> {}, blobs |-> {err.blob_id}]
    [] OTHER -> [templates |-> {err.template_id}, blobs |-> {}]

\* CertificateError::into_response, certificate.rs:51-97
CertificateError_status(err) ==
  CASE err.kind = "TemplateNotFound" -> INTERNAL_SERVER_ERROR
    [] err.kind = "SerializationFailure" -> BAD_REQUEST
    [] err.kind = "CompilationFailure" -> BAD_REQUEST
    [] err.kind = "ExportFailure" -> INTERNAL_SERVER_ERROR

\* the handler's error type decides which mapping applies
into_response(kind, err) ==
  IF kind = "certificate" THEN CertificateError_status(err) ELSE TemplateError_status(err)

\* Err(TemplateError::NotFound(id)) / Err(CertificateError::TemplateNotFound)
NotFoundErr(kind, id) ==
  IF kind = "certificate"
  THEN [kind |-> "TemplateNotFound", template_id |-> "", blob_id |-> 0 - 1]
  ELSE [kind |-> "NotFound", template_id |-> id, blob_id |-> 0 - 1]

\* the iterator over payload.blob_inputs: the list is drawn one element at
\* a time as the loop reaches it (what a handler never reaches cannot
\* influence it); blob_inputs holds the elements yielded so far.  The loop
\* either ends, and the handler goes on to compile, or yields the next
\* element; create_certificate has no blob inputs (certificate.rs:132-146)
NextBlobInput(q) ==
  { [q EXCEPT !.pc = "compile", !.data = <<>>] }
  \cup { [q EXCEPT !.pc = "check", !.data = <<>>,
                    !.blob_inputs = Append(q.blob_inputs, b),
                    !.i = Len(q.blob_inputs) + 1] :
           b \in { x \in BlobInput : q.kind = "template"
                                     /\ Len(q.blob_inputs) < MaxBlobInputs } }

\* a lookup that loads the template when it is absent (load-on-miss)
AcquireLoadOnMiss(r) ==
  /\ req[r].pc = "acquire"
  /\ LockFree(Shard(req[r].id))
  /\ template_cache' = Put(template_cache, req[r].id, [dirty |-> FALSE])
  /\ shardLock' = [shardLock EXCEPT ![Shard(req[r].id)] = r]
  /\ \E q \in NextBlobInput(req[r]) : req' = [req EXCEPT ![r] = q]
  /\ UNCHANGED << startup, assembly, shardOf, storage, disk, uploaded >>

\* a handler that resolves its blob references before it looks at the result
\* of the lookup
AcquireChecksLate(r) ==
  /\ req[r].pc = "acquire"
  /\ LockFree(Shard(req[r].id))
  /\ shardLock' = IF Has(template_cache, req[r].id)
                  THEN [shardLock EXCEPT ![Shard(req[r].id)] = r] ELSE shardLock
  /\ \E q \in NextBlobInput(req[r]) : req' = [req EXCEPT ![r] = q]
  /\ UNCHANGED << startup, assembly, template_cache, shardOf, storage, disk, uploaded >>

\* state.template_cache.get_mut(&id): waits for the shard's write lock; the
\* guard is kept when the entry exists and dropped at once when it does not
Acquire(r) ==
  /\ req[r].pc = "acquire"
  /\ LockFree(Shard(req[r].id))
  /\ IF Has(template_cache, req[r].id)
     THEN /\ shardLock' = [shardLock EXCEPT ![Shard(req[r].id)] = r]
          /\ \E q \in NextBlobInput([req[r] EXCEPT
                                        !.mark = template_cache[req[r].id].dirty]) :
               req' = [req EXCEPT ![r] = q]
     ELSE /\ shardLock' = shardLock
          /\ req' = [req EXCEPT ![r] = Respond(r, into_response(req[r].kind,
                                                                NotFoundErr(req[r].kind, req[r].id)),
                                                NotFoundErr(req[r].kind, req[r].id))]
  /\ UNCHANGED << startup, assembly, template_cache, shardOf, storage, disk, uploaded >>

CurrentBlob(q) == q.blob_inputs[q.i]

\* inputs.with_input(OicanaBlobInput::new(key, data)) and the loop's next turn
WithBlob(q, data) ==
  NextBlobInput([q EXCEPT !.inputs = Append(q.inputs, [key |-> CurrentBlob(q).key,
                                                        data |-> data])])

\* an error that reports the first blob of the list, not the one that failed
BlobNotFoundFirst(q) ==
  [kind |-> "BlobNotFound", template_id |-> q.id, blob_id |-> q.blob_inputs[1].blob_id]

\* TemplateError::BlobNotFound { template_id: id, blob_id }
BlobNotFound(q) ==
  [kind |-> "BlobNotFound", template_id |-> q.id, blob_id |-> CurrentBlob(q).blob_id]

\* a cache hit that returns an empty buffer instead of the entry's bytes
GetBlobCheckEmpty(r) ==
  /\ req[r].pc = "check"
  /\ LET b == CurrentBlob(req[r]).blob_id IN
       IF Has(storage, b)
       THEN \E q \in WithBlob(req[r], <<>>) : req' = [req EXCEPT ![r] = q]
       ELSE req' = [req EXCEPT ![r].pc = "read"]
  /\ UNCHANGED << startup, assembly, template_cache, shardOf, shardLock, storage, disk, uploaded >>

\* get_blob, blob.rs:52-54: the cache lookup
GetBlobCheck(r) ==
  /\ req[r].pc = "check"
  /\ LET b == CurrentBlob(req[r]).blob_id IN
       IF Has(storage, b)
       THEN \E q \in WithBlob(req[r], storage[b]) : req' = [req EXCEPT ![r] = q]
       ELSE req' = [req EXCEPT ![r].pc = "read"]
  /\ UNCHANGED << startup, assembly, template_cache, shardOf, shardLock, storage, disk, uploaded >>

\* a failed read that leaves an empty entry in the cache
GetBlobReadCachesMiss(r) ==
  /\ req[r].pc = "read"
  /\ LET b == CurrentBlob(req[r]).blob_id IN
       \/ /\ Has(disk, b)
          /\ req' = [req EXCEPT ![r].pc = "insert", ![r].data = disk[b]]
          /\ shardLock' = shardLock
          /\ storage' = storage
       \/ /\ req' = [req EXCEPT ![r] = [Respond(r, into_response(req[r].kind, BlobNotFound(req[r])),
                                                  BlobNotFound(req[r]))
                                          EXCEPT !.fault = Has(disk, b), !.i = req[r].i,
                                                 !.blob_inputs = << CurrentBlob(req[r]) >>]]
          /\ shardLock' = Release(r)
          /\ storage' = Put(storage, b, <<>>)
  /\ UNCHANGED << startup, assembly, template_cache, shardOf, disk, uploaded >>

\* a loop that skips an unresolved blob and goes on to the next input
GetBlobReadSkips(r) ==
  /\ req[r].pc = "read"
  /\ LET b == CurrentBlob(req[r]).blob_id IN
       \/ /\ Has(disk, b)
          /\ req' = [req EXCEPT ![r].pc = "insert", ![r].data = disk[b]]
       \/ \E q \in NextBlobInput(req[r]) : req' = [req EXCEPT ![r] = q]
  /\ UNCHANGED << startup, assembly, template_cache, shardOf, shardLock, storage, disk, uploaded >>

\* get_blob, blob.rs:56-57 and 63-66: std::fs::read of blobs/<id>; Err covers
\* a missing file and any other I/O error (fault records the latter); None
\* makes the handler return BlobNotFound, which drops the guard.  The
\* response keeps the input the handler stopped at and its position
GetBlobRead(r) ==
  /\ req[r].pc = "read"
  /\ LET b == CurrentBlob(req[r]).blob_id IN
       \/ /\ Has(disk, b)
          /\ req' = [req EXCEPT ![r].pc = "insert", ![r].data = disk[b]]
          /\ shardLock' = shardLock
       \/ /\ req' = [req EXCEPT ![r] = [Respond(r, into_response(req[r].kind, BlobNotFound(req[r])),
                                                  BlobNotFound(req[r]))
                                          EXCEPT !.fault = Has(disk, b), !.i = req[r].i,
                                                 !.blob_inputs = << CurrentBlob(req[r]) >>]]
          /\ shardLock' = Release(r)
  /\ UNCHANGED << startup, assembly, template_cache, shardOf, storage, disk, uploaded >>

\* a miss that returns the bytes read without caching them
GetBlobInsertNoCache(r) ==
  /\ req[r].pc = "insert"
  /\ \E q \in WithBlob(req[r], req[r].data) :
       req' = [req EXCEPT ![r] = [q EXCEPT !.healed = TRUE]]
  /\ UNCHANGED << startup, assembly, template_cache, shardOf, shardLock, storage, disk, uploaded >>

\* get_blob, blob.rs:58-61: storage.insert(id, data.clone()); Some(data)
GetBlobInsert(r) ==
  /\ req[r].pc = "insert"
  /\ storage' = Put(storage, CurrentBlob(req[r]).blob_id, req[r].data)
  /\ \E q \in WithBlob(req[r], req[r].data) :
       req' = [req EXCEPT ![r] = [q EXCEPT !.healed = TRUE]]
  /\ UNCHANGED << startup, assembly, template_cache, shardOf, shardLock, disk, uploaded >>

CompileErr(q) ==
  IF q.kind = "certificate"
  THEN [kind |-> "CompilationFailure", template_id |-> "", blob_id |-> 0 - 1]
  ELSE [kind |-> "CompilationFailure", template_id |-> q.id, blob_id |-> 0 - 1]

ExportErr(q) ==
  IF q.kind = "certificate"
  THEN [kind |-> "ExportFailure", template_id |-> "", blob_id |-> 0 - 1]
  ELSE [kind |-> "ExportFailure", template_id |-> q.id, blob_id |-> 0 - 1]

\* a compile that drops the instance from the registry when it fails
CompileEvictsOnFailure(r) ==
  /\ req[r].pc = "compile"
  /\ \/ /\ template_cache' = [template_cache EXCEPT ![req[r].id].dirty = TRUE]
        /\ req' = [req EXCEPT ![r].pc = "export", ![r].compiled = TRUE]
        /\ shardLock' = shardLock
     \/ /\ template_cache' = Del(template_cache, req[r].id)
        /\ req' = [req EXCEPT ![r] = [Respond(r, into_response(req[r].kind, CompileErr(req[r])),
                                                 CompileErr(req[r]))
                                         EXCEPT !.compiled = TRUE]]
        /\ shardLock' = Release(r)
  /\ UNCHANGED << startup, assembly, shardOf, storage, disk, uploaded >>

\* template.compile(inputs): mutates the instance whatever the outcome; the
\* instance is opaque, so all that is kept of its state is whether a compile
\* has touched it since it was loaded
Compile(r) ==
  /\ req[r].pc = "compile"
  /\ template_cache' = [template_cache EXCEPT ![req[r].id].dirty = TRUE]
  /\ \/ /\ req' = [req EXCEPT ![r].pc = "export", ![r].compiled = TRUE]
        /\ shardLock' = shardLock
     \/ /\ req' = [req EXCEPT ![r] = [Respond(r, into_response(req[r].kind, CompileErr(req[r])),
                                                 CompileErr(req[r]))
                                         EXCEPT !.compiled = TRUE]]
        /\ shardLock' = Release(r)
  /\ UNCHANGED << startup, assembly, shardOf, storage, disk, uploaded >>

\* the output variants of a request: pdf for compile_template and
\* create_certificate, png for preview_template
Variants(q) == IF q.kind = "certificate" THEN {"certificate"} ELSE {"compile", "preview"}

\* a panic in the png export that leaves the shard locked
ExportAbortKeepsLock(r) ==
  /\ req[r].pc = "export"
  /\ \E kind \in Variants(req[r]) :
       \/ /\ req' = [req EXCEPT ![r] = [Respond(r, OK, NoErr)
                                         EXCEPT !.kind = kind, !.exported = TRUE]]
          /\ shardLock' = Release(r)
       \/ /\ req' = [req EXCEPT ![r] =
                      [Respond(r, IF kind = "preview" THEN ABORTED
                                          ELSE into_response(kind, ExportErr(req[r])),
                               IF kind = "preview" THEN NoErr ELSE ExportErr(req[r]))
                       EXCEPT !.kind = kind, !.exported = TRUE]]
          /\ shardLock' = IF kind = "preview" THEN shardLock ELSE Release(r)
  /\ UNCHANGED << startup, assembly, template_cache, shardOf, storage, disk, uploaded >>

\* export_merged_pdf / export_merged_png; compile_template and
\* create_certificate map a failure to ExportFailure, preview_template
\* unwraps the result, so a failed png export panics: the guard is dropped
\* by unwinding and no response is produced
Export(r) ==
  /\ req[r].pc = "export"
  /\ \E kind \in Variants(req[r]) :
       \/ req' = [req EXCEPT ![r] = [Respond(r, OK, NoErr)
                                      EXCEPT !.kind = kind, !.exported = TRUE]]
       \/ req' = [req EXCEPT ![r] =
                   [Respond(r, IF kind = "preview" THEN ABORTED
                                       ELSE into_response(kind, ExportErr(req[r])),
                            IF kind = "preview" THEN NoErr ELSE ExportErr(req[r]))
                    EXCEPT !.kind = kind, !.exported = TRUE]]
  /\ shardLock' = Release(r)
  /\ UNCHANGED << startup, assembly, template_cache, shardOf, storage, disk, uploaded >>

\* a reset that takes the entry out without waiting for the shard lock
RemoveNoWait(r) ==
  /\ req[r].pc = "remove"
  /\ IF Has(template_cache, req[r].id)
     THEN /\ template_cache' = Del(template_cache, req[r].id)
          /\ req' = [req EXCEPT ![r] = Respond(r, NO_CONTENT, NoErr)]
     ELSE /\ template_cache' = template_cache
          /\ req' = [req EXCEPT ![r] = Respond(r, NOT_FOUND, NoErr)]
  /\ UNCHANGED << startup, assembly, shardOf, shardLock, storage, disk, uploaded >>

\* a reset that ignores what remove returned and always answers 204
RemoveIgnoresResult(r) ==
  /\ req[r].pc = "remove"
  /\ LockFree(Shard(req[r].id))
  /\ template_cache' = IF Has(template_cache, req[r].id)
                       THEN Del(template_cache, req[r].id) ELSE template_cache
  /\ req' = [req EXCEPT ![r] = Respond(r, NO_CONTENT, NoErr)]
  /\ UNCHANGED << startup, assembly, shardOf, shardLock, storage, disk, uploaded >>

\* reset_template: state.template_cache.remove(&id)
Remove(r) ==
  /\ req[r].pc = "remove"
  /\ LockFree(Shard(req[r].id))
  /\ IF Has(template_cache, req[r].id)
     THEN /\ template_cache' = Del(template_cache, req[r].id)
          /\ req' = [req EXCEPT ![r] = Respond(r, NO_CONTENT, NoErr)]
     ELSE /\ template_cache' = template_cache
          /\ req' = [req EXCEPT ![r] = Respond(r, NOT_FOUND, NoErr)]
  /\ UNCHANGED << startup, assembly, shardOf, shardLock, storage, disk, uploaded >>

\* ------------------------------------------------------------ blob.rs upload
\* identifiers that repeat: any generated id, used or not
FreshIdsRepeat == GenIds

\* uuids new_v4 has not handed out: not on disk, not cached, not held by an
\* upload in flight
FreshIds ==
  GenIds \ (DOMAIN disk \cup DOMAIN storage
            \cup { req[w].bid : w \in { v \in Workers : req[v].kind = "upload" } })

\* upload_blob, blob.rs:102-137: the multipart loop, then Uuid::new_v4()
StartUpload(r) ==
  /\ FreeSlot(r)
  /\ \/ \E reason \in {"missing", "unreadable"} :
          req' = [req EXCEPT ![r] = [Idle EXCEPT !.kind = "upload", !.pc = "done",
                                      !.status = BAD_REQUEST]]
     \/ \E data \in Datas, id \in FreshIds :
          req' = [req EXCEPT ![r] = [Idle EXCEPT !.kind = "upload", !.pc = "write",
                                      !.data = data, !.bid = id]]
  /\ UNCHANGED << startup, assembly, template_cache, shardOf, shardLock, storage, disk, uploaded >>

\* an upload that fills the cache before the file is written
UploadWriteCacheFirst(r) ==
  /\ req[r].pc = "write"
  /\ storage' = Put(storage, req[r].bid, req[r].data)
  /\ \/ /\ disk' = Put(disk, req[r].bid, req[r].data)
        /\ req' = [req EXCEPT ![r].pc = "cache"]
     \/ /\ disk' = disk
        /\ req' = [req EXCEPT ![r] = Respond(r, INTERNAL_SERVER_ERROR, NoErr)]
  /\ UNCHANGED << startup, assembly, template_cache, shardOf, shardLock, uploaded >>

\* an upload that ignores the result of the write and goes on to the cache
UploadWriteIgnoresError(r) ==
  /\ req[r].pc = "write"
  /\ \/ disk' = Put(disk, req[r].bid, req[r].data)
     \/ disk' = disk
     \/ \E part \in ProperPrefixes(req[r].data) : disk' = Put(disk, req[r].bid, part)
  /\ req' = [req EXCEPT ![r].pc = "cache"]
  /\ UNCHANGED << startup, assembly, template_cache, shardOf, shardLock, storage, uploaded >>

\* upload_blob, blob.rs:139-146: std::fs::write is File::create followed by
\* write_all; it fails either before the file exists or after part of the
\* data is written, and the handler returns 500 without removing the file
UploadWrite(r) ==
  /\ req[r].pc = "write"
  /\ \/ /\ disk' = Put(disk, req[r].bid, req[r].data)
        /\ req' = [req EXCEPT ![r].pc = "cache"]
     \/ /\ disk' = disk
        /\ req' = [req EXCEPT ![r] = Respond(r, INTERNAL_SERVER_ERROR, NoErr)]
     \/ \E part \in ProperPrefixes(req[r].data) :
        /\ disk' = Put(disk, req[r].bid, part)
        /\ req' = [req EXCEPT ![r] = Respond(r, INTERNAL_SERVER_ERROR, NoErr)]
  /\ UNCHANGED << startup, assembly, template_cache, shardOf, shardLock, storage, uploaded >>

\* upload_blob, blob.rs:148-151: storage.insert(id, data); 200 {id}
UploadInsert(r) ==
  /\ req[r].pc = "cache"
  /\ storage' = Put(storage, req[r].bid, req[r].data)
  /\ uploaded' = Put(uploaded, req[r].bid, req[r].data)
  /\ req' = [req EXCEPT ![r] = Respond(r, OK, NoErr)]
  /\ UNCHANGED << startup, assembly, template_cache, shardOf, shardLock, disk >>

\* the response is sent and the worker slot is free again
Finish(r) ==
  /\ req[r].pc = "done"
  /\ req' = [req EXCEPT ![r] = Idle]
  /\ UNCHANGED << startup, assembly, template_cache, shardOf, shardLock, storage, disk, uploaded >>

\* the process stops and starts again: main.rs:82-85 shuts down gracefully,
\* so no request is in flight; everything but ./blobs is rebuilt
Restart ==
  /\ \A w \in Workers : req[w].pc = "idle"
  /\ \E b \in BootStates(disk) :
       /\ template_cache' = b.tc
       /\ shardOf' = b.so
       /\ storage' = b.st
  /\ shardLock' = [s \in Shards |-> NoHolder]
  /\ req' = [w \in Workers |-> Idle]
  /\ UNCHANGED << startup, assembly, disk, uploaded >>

Next ==
  \/ \E r \in Workers : StartCompile(r)
  \/ \E r \in Workers : StartCertificate(r)
  \/ \E r \in Workers : StartReset(r)
  \/ \E r \in Workers : StartUpload(r)
  \/ \E r \in Workers : StartList(r)
  \/ \E r \in Workers : Acquire(r)
  \/ \E r \in Workers : GetBlobCheck(r)
  \/ \E r \in Workers : GetBlobRead(r)
  \/ \E r \in Workers : GetBlobInsert(r)
  \/ \E r \in Workers : Compile(r)
  \/ \E r \in Workers : Export(r)
  \/ \E r \in Workers : Remove(r)
  \/ \E r \in Workers : UploadWrite(r)
  \/ \E r \in Workers : UploadInsert(r)
  \/ \E r \in Workers : Finish(r)
  \/ Restart

Spec == Init /\ [][Next]_vars

\* ------------------------------------------------------------- scheduling
\* The requests that go through the registry: compile, preview, certificate
\* and reset, with the blob lookups they make.  An upload takes no registry
\* lock and a listing takes no state, and the process is not restarted while
\* a request is in flight, so they are left out here
NextRegistry ==
  \/ \E r \in Workers : StartCompile(r)
  \/ \E r \in Workers : StartCertificate(r)
  \/ \E r \in Workers : StartReset(r)
  \/ \E r \in Workers : Acquire(r)
  \/ \E r \in Workers : GetBlobCheck(r)
  \/ \E r \in Workers : GetBlobRead(r)
  \/ \E r \in Workers : GetBlobInsert(r)
  \/ \E r \in Workers : Compile(r)
  \/ \E r \in Workers : Export(r)
  \/ \E r \in Workers : Remove(r)
  \/ \E r \in Workers : Finish(r)

\* Every handler runs on a worker thread of the runtime and has no await
\* point between its first and its last step, so a step that can be taken is
\* taken (compile, export and file reads are assumed to return).  A handler
\* waiting in get_mut or remove is parked on the shard lock, which hands the
\* lock to a parked waiter eventually: a waiter that finds the lock free again
\* and again gets it
Fairness ==
  \A r \in Workers :
    /\ SF_vars(Acquire(r))
    /\ SF_vars(Remove(r))
    /\ WF_vars(GetBlobCheck(r))
    /\ WF_vars(GetBlobRead(r))
    /\ WF_vars(GetBlobInsert(r))
    /\ WF_vars(Compile(r))
    /\ WF_vars(Export(r))

SpecFair == Init /\ [][NextRegistry]_vars /\ Fairness

TypeOK ==
  /\ DOMAIN template_cache \subseteq CatalogIds
  /\ DOMAIN storage \subseteq BlobIds
  /\ DOMAIN disk \subseteq BlobIds

\* ------------------------------------------------- the warm-up loop, stepwise
\* what ./templates holds for an identifier of the table: no archive, an
\* archive Template::init rejects, or one that loads
ArchiveStates == {"missing", "corrupt", "good"}

TemplateIds == { TEMPLATES[k] : k \in 1..Len(TEMPLATES) }

Loadable(archives) == { id \in TemplateIds : archives[id] = "good" }

\* one turn of the loop in warmed_up_templates, template.rs:70-90: File::open
\* fails on a missing archive and Template::init on a corrupt one, both
\* `continue`; otherwise the instance is inserted
LoadEntry(id, archives, cache) ==
  IF archives[id] = "missing" THEN cache
  ELSE IF archives[id] = "corrupt" THEN cache
  ELSE Put(cache, id, [dirty |-> FALSE])

InitWarmUp ==
  /\ \E archives \in [TemplateIds -> ArchiveStates] :
       startup = [pc |-> "warmup", k |-> 1, archives |-> archives]
  /\ template_cache = EmptyMap
  /\ shardOf = [id \in TargetIds |-> 0]
  /\ shardLock = [s \in Shards |-> NoHolder]
  /\ storage = EmptyMap
  /\ disk = EmptyMap
  /\ req = [w \in Workers |-> Idle]
  /\ uploaded = EmptyMap
  /\ assembly = NoAssembly

\* a loop that gives up at the first archive that fails to load
WarmUpStepReturnsOnFailure ==
  /\ startup.pc = "warmup"
  /\ startup.k <= Len(TEMPLATES)
  /\ template_cache' = LoadEntry(TEMPLATES[startup.k], startup.archives, template_cache)
  /\ startup' = [startup EXCEPT !.k = IF startup.archives[TEMPLATES[startup.k]] = "good"
                                     THEN startup.k + 1 ELSE Len(TEMPLATES) + 1]
  /\ UNCHANGED << shardOf, shardLock, storage, disk, req, uploaded, assembly >>

\* for (id, version) in TEMPLATES { ... }: the turn for the next entry
WarmUpStep ==
  /\ startup.pc = "warmup"
  /\ startup.k <= Len(TEMPLATES)
  /\ template_cache' = LoadEntry(TEMPLATES[startup.k], startup.archives, template_cache)
  /\ startup' = [startup EXCEPT !.k = startup.k + 1]
  /\ UNCHANGED << shardOf, shardLock, storage, disk, req, uploaded, assembly >>

\* the loop is over: warmed_up_templates returns the cache and main.rs:51-58
\* hands it to the routers
WarmUpReturn ==
  /\ startup.pc = "warmup"
  /\ startup.k > Len(TEMPLATES)
  /\ startup' = [startup EXCEPT !.pc = "serving"]
  /\ UNCHANGED << template_cache, shardOf, shardLock, storage, disk, req, uploaded,
                  assembly >>

NextWarmUp == WarmUpStep \/ WarmUpReturn

SpecWarmUp == InitWarmUp /\ [][NextWarmUp]_vars

\* ------------------------------------- putting the input set together, stepwise
\* compile_template / preview_template, template.rs:199-217 and 264-282: the
\* two loops over the payload are local to the handler, so they are followed
\* here for one handler that holds the handle of a live template, with the
\* whole payload given
JsonKeys == {"data", "extra"}

\* serde_json::Value: two numbers and a string that reads like the first
JsonValues ==
  { [t |-> "number", v |-> "1"], [t |-> "number", v |-> "2"], [t |-> "string", v |-> "1"] }

JsonInput == [key : JsonKeys, value : JsonValues]

SeqsUpTo(S, n) == UNION { [1..m -> S] : m \in 0..n }

\* value.to_string(): the JSON text of the value; a string is quoted
to_string(value) ==
  IF value.t = "string" THEN "\"" \o value.v \o "\"" ELSE value.v

OicanaJsonInput(key, value) == [kind |-> "json", key |-> key, value |-> value]
OicanaBlobInput(key, data) == [kind |-> "blob", key |-> key, value |-> data]

\* TemplateInputs::new() with the development configuration
NewTemplateInputs == [config |-> "development", json |-> EmptyMap, blob |-> EmptyMap]

\* TemplateInputs::with_input: accumulation is last-write-wins per key among
\* inputs of one kind
with_input(inputs, input) ==
  IF input.kind = "json"
  THEN [inputs EXCEPT !.json = Put(@, input.key, input.value)]
  ELSE [inputs EXCEPT !.blob = Put(@, input.key, input.value)]

\* get_blob as the handler sees it, blob.rs:51-68: Some(bytes) from the cache
\* or from the file, None otherwise (an option is a sequence of length <= 1)
get_blob(id) ==
  IF Has(storage, id) THEN << storage[id] >>
  ELSE IF Has(disk, id) THEN << disk[id] >>
  ELSE << >>

InitInputs ==
  /\ \E js \in SeqsUpTo(JsonInput, MaxJsonInputs), bs \in SeqsUpTo(BlobInput, MaxBlobInputs) :
       assembly = [pc |-> "json", id |-> Catalog[1], json_inputs |-> js, blob_inputs |-> bs,
                   j |-> 0, i |-> 0, inputs |-> NewTemplateInputs, calls |-> << >>,
                   handed |-> << >>, err |-> NoErr]
  /\ template_cache = warmed_up_templates(CatalogIds)
  /\ shardOf = [id \in TargetIds |-> 0]
  /\ shardLock = [s \in Shards |-> NoHolder]
  /\ disk = Put(EmptyMap, DEFAULT_BLOB_UUID, Logo)
  /\ storage = disk
  /\ req = [w \in Workers |-> Idle]
  /\ uploaded = EmptyMap
  /\ startup = Serving

\* a loop that takes the JSON inputs from the end of the list
JsonInputStepReversed ==
  /\ assembly.pc = "json"
  /\ assembly.j < Len(assembly.json_inputs)
  /\ LET e == assembly.json_inputs[Len(assembly.json_inputs) - assembly.j]
         input == OicanaJsonInput(e.key, to_string(e.value))
     IN assembly' = [assembly EXCEPT !.inputs = with_input(@, input),
                                      !.calls = Append(@, input),
                                      !.j = @ + 1]
  /\ UNCHANGED << template_cache, shardOf, shardLock, storage, disk, req, uploaded,
                  startup >>

\* for JsonInput { key, value } in payload.json_inputs:
\*   inputs.with_input(OicanaJsonInput::new(key, value.to_string()))
JsonInputStep ==
  /\ assembly.pc = "json"
  /\ assembly.j < Len(assembly.json_inputs)
  /\ LET e == assembly.json_inputs[assembly.j + 1]
         input == OicanaJsonInput(e.key, to_string(e.value))
     IN assembly' = [assembly EXCEPT !.inputs = with_input(@, input),
                                      !.calls = Append(@, input),
                                      !.j = @ + 1]
  /\ UNCHANGED << template_cache, shardOf, shardLock, storage, disk, req, uploaded,
                  startup >>

\* the JSON loop is over, the blob loop begins
JsonInputsDone ==
  /\ assembly.pc = "json"
  /\ assembly.j = Len(assembly.json_inputs)
  /\ assembly' = [assembly EXCEPT !.pc = "blob"]
  /\ UNCHANGED << template_cache, shardOf, shardLock, storage, disk, req, uploaded,
                  startup >>

\* for BlobInput { key, blob_id } in payload.blob_inputs: with_input on
\* Some(data), return Err(BlobNotFound) on None
BlobInputStep ==
  /\ assembly.pc = "blob"
  /\ assembly.i < Len(assembly.blob_inputs)
  /\ LET e == assembly.blob_inputs[assembly.i + 1]
         got == get_blob(e.blob_id)
     IN IF got # << >>
        THEN assembly' = [assembly EXCEPT
                            !.inputs = with_input(@, OicanaBlobInput(e.key, got[1])),
                            !.calls = Append(@, OicanaBlobInput(e.key, got[1])),
                            !.i = @ + 1]
        ELSE assembly' = [assembly EXCEPT
                            !.pc = "done",
                            !.err = [kind |-> "BlobNotFound", template_id |-> assembly.id,
                                     blob_id |-> e.blob_id]]
  /\ UNCHANGED << template_cache, shardOf, shardLock, storage, disk, req, uploaded,
                  startup >>

\* the blob loop is over
BlobInputsDone ==
  /\ assembly.pc = "blob"
  /\ assembly.i = Len(assembly.blob_inputs)
  /\ assembly' = [assembly EXCEPT !.pc = "compile"]
  /\ UNCHANGED << template_cache, shardOf, shardLock, storage, disk, req, uploaded,
                  startup >>

\* template.compile(inputs): the input set is handed to the compile call
CompileCall ==
  /\ assembly.pc = "compile"
  /\ assembly' = [assembly EXCEPT !.pc = "done", !.handed = << assembly.inputs >>]
  /\ template_cache' = [template_cache EXCEPT ![assembly.id].dirty = TRUE]
  /\ UNCHANGED << shardOf, shardLock, storage, disk, req, uploaded, startup >>

NextInputs ==
  \/ JsonInputStep
  \/ JsonInputsDone
  \/ BlobInputStep
  \/ BlobInputsDone
  \/ CompileCall

SpecInputs == InitInputs /\ [][NextInputs]_vars

\* ==================================================================== claims
\* between acquiring the instance handle and returning
InSection(r) == req[r].pc \in {"check", "read", "insert", "compile", "export"}

Responded(r, kind) == req[r].pc = "done" /\ req[r].err.kind = kind

\* C1: at most one request is between acquiring the handle of a template
\* identifier and returning; two compiles (or a compile and the certificate
\* flow) on one identifier never overlap
C1_MutualExclusion ==
  \A r, q \in Workers :
    (r # q /\ InSection(r) /\ InSection(q)) => req[r].id # req[q].id

\* a compile on "certificate" is inside its section while a certificate
\* request waits for the same handle
C1_Witness ==
  \E r, q \in Workers :
    /\ req[r].kind = "template" /\ req[r].pc = "compile"
    /\ req[q].kind = "certificate" /\ req[q].pc = "acquire"
    /\ req[r].id = req[q].id

\* C2 as stated: a request waiting for a handle only ever waits for a request
\* on the same identifier
C2_NeverWaitsForOtherId ==
  \A r, q \in Workers :
    (r # q /\ req[r].pc = "acquire" /\ shardLock[Shard(req[r].id)] = q)
      => req[q].id = req[r].id

\* C2 amended: a request waits only while another request is inside its
\* section on an identifier of the same shard of the registry map; requests on
\* identifiers of different shards never block each other
C2_WaitsOnlyWithinShard ==
  \A r \in Workers :
    (req[r].pc \in {"acquire", "remove"} /\ ~LockFree(Shard(req[r].id)))
      => \E q \in Workers :
           /\ q # r
           /\ InSection(q)
           /\ shardOf[req[q].id] = shardOf[req[r].id]

\* a request waits behind a compile on a different identifier of its shard
C2_Witness ==
  \E r, q \in Workers :
    /\ req[r].pc = "acquire" /\ InSection(q)
    /\ req[r].id # req[q].id
    /\ shardOf[req[r].id] = shardOf[req[q].id]
    /\ shardLock[shardOf[req[r].id]] = q

\* C3: every identifier in the volatile cache is in the durable store with the
\* same bytes, and an upload reaches its cache insertion only with the bytes
\* already durable
C3_DurableBeforeVisible ==
  /\ \A b \in DOMAIN storage : Has(disk, b) /\ disk[b] = storage[b]
  /\ \A r \in Workers :
       (req[r].kind = "upload" /\ req[r].pc = "cache")
         => (Has(disk, req[r].bid) /\ disk[req[r].bid] = req[r].data)

\* an upload has been answered and its blob is cached while a read of another
\* request is between its disk read and its cache insertion
C3_Witness ==
  \E r, q \in Workers :
    /\ req[r].pc = "insert"
    /\ req[q].kind = "upload" /\ req[q].pc = "done" /\ req[q].status = OK
    /\ Has(storage, req[q].bid)

\* C4: a failed upload changes nothing: after a 500 neither tier holds the
\* generated identifier, and a 400 is answered before an identifier exists
C4_FailedUploadLeavesNoTrace ==
  \A r \in Workers :
    (req[r].kind = "upload" /\ req[r].pc = "done") =>
      /\ req[r].status = INTERNAL_SERVER_ERROR
           => (~Has(disk, req[r].bid) /\ ~Has(storage, req[r].bid))
      /\ req[r].status = BAD_REQUEST => req[r].bid \notin BlobIds

\* C5: the bytes of a successful upload stay in the durable store, the cache
\* never holds other bytes for its identifier, and every get of that
\* identifier hands exactly those bytes to the handler
C5_RoundTrip ==
  /\ \A b \in DOMAIN uploaded :
       /\ Has(disk, b) /\ disk[b] = uploaded[b]
       /\ Has(storage, b) => storage[b] = uploaded[b]
  /\ \A r \in Workers :
       /\ \A j \in 1..Len(req[r].inputs) :
            Has(uploaded, req[r].blob_inputs[j].blob_id)
              => req[r].inputs[j].data = uploaded[req[r].blob_inputs[j].blob_id]
       /\ (req[r].pc = "insert" /\ Has(uploaded, CurrentBlob(req[r]).blob_id))
            => req[r].data = uploaded[CurrentBlob(req[r]).blob_id]

\* a get handed a handler the bytes of a successfully uploaded blob, here
\* the empty byte sequence
C5_Witness ==
  \E r \in Workers : \E j \in 1..Len(req[r].inputs) :
    /\ Has(uploaded, req[r].blob_inputs[j].blob_id)
    /\ uploaded[req[r].blob_inputs[j].blob_id] = <<>>
    /\ req[r].inputs[j].data = <<>>

\* C6: a get that misses the cache is served from the durable store, and every
\* blob a get has returned is in the cache with the bytes returned, so the
\* next get of it is a hit
C6_MissThenHeal ==
  \A r \in Workers :
    /\ req[r].pc = "insert"
         => /\ Has(disk, CurrentBlob(req[r]).blob_id)
            /\ req[r].data = disk[CurrentBlob(req[r]).blob_id]
    /\ \A j \in 1..Len(req[r].inputs) :
         /\ Has(storage, req[r].blob_inputs[j].blob_id)
         /\ storage[req[r].blob_inputs[j].blob_id] = req[r].inputs[j].data

\* a get missed the cache on an uploaded blob, read it from disk and put it
\* back into the cache
C6_Witness ==
  \E r \in Workers :
    /\ req[r].healed
    /\ Len(req[r].inputs) > 0
    /\ LET b == req[r].blob_inputs[Len(req[r].inputs)].blob_id IN
         /\ Has(uploaded, b)
         /\ Has(storage, b)
         /\ req[r].inputs[Len(req[r].inputs)].data = uploaded[b]

\* C7: a get of an identifier in neither tier goes from the cache lookup to
\* the disk read and from there to BlobNotFound for that identifier, and
\* neither step changes the cache or the durable store
C7_UnknownBlobNotFound ==
  [][ \A r \in Workers :
        /\ (req[r].pc = "check" /\ ~Has(storage, CurrentBlob(req[r]).blob_id)
            /\ req'[r] # req[r])
             => (req'[r].pc = "read" /\ storage' = storage /\ disk' = disk)
        /\ (req[r].pc = "read" /\ ~Has(disk, CurrentBlob(req[r]).blob_id)
            /\ req'[r] # req[r])
             => /\ req'[r].pc = "done"
                /\ req'[r].err.kind = "BlobNotFound"
                /\ req'[r].err.blob_id = CurrentBlob(req[r]).blob_id
                /\ storage' = storage
                /\ disk' = disk ]_vars

\* a get of an identifier that is in neither tier was answered BlobNotFound,
\* in a run whose cache no longer holds an uploaded blob (after a restart)
C7_Witness ==
  \E r \in Workers :
    /\ Responded(r, "BlobNotFound")
    /\ ~req[r].fault
    /\ ~Has(disk, req[r].err.blob_id)
    /\ ~Has(storage, req[r].err.blob_id)
    /\ \E b \in DOMAIN uploaded : ~Has(storage, b)

\* C8: while blob references are resolved nothing has been compiled or
\* exported and the instance is as it was when the handle was acquired; every
\* reference before the current one is resolved; compile is reached only with
\* every reference resolved; a BlobNotFound response never follows a compile
C8_FailFast ==
  \A r \in Workers :
    /\ req[r].pc \in {"check", "read", "insert"}
         => /\ ~req[r].compiled /\ ~req[r].exported
            /\ Len(req[r].blob_inputs) = req[r].i
            /\ Len(req[r].inputs) = req[r].i - 1
            /\ Has(template_cache, req[r].id)
            /\ template_cache[req[r].id].dirty = req[r].mark
    /\ req[r].pc = "compile"
         => (~req[r].compiled /\ Len(req[r].inputs) = Len(req[r].blob_inputs))
    /\ Responded(r, "BlobNotFound") => (~req[r].compiled /\ ~req[r].exported)
    /\ req[r].exported => req[r].compiled

\* a request stopped at the second reference of its list, the first one
\* resolved, without compiling
C8_Witness ==
  \E r \in Workers :
    Responded(r, "BlobNotFound") /\ req[r].i = 2 /\ ~req[r].compiled

\* C9 as stated: the BlobNotFound response names the offending input key and
\* the offending blob id, with status 400
C9_NamesKeyAndBlob ==
  \A r \in Workers :
    Responded(r, "BlobNotFound") =>
      /\ req[r].status = BAD_REQUEST
      /\ req[r].blob_inputs[1].key \in TemplateError_message(req[r].err).templates
      /\ req[r].blob_inputs[1].blob_id \in TemplateError_message(req[r].err).blobs

\* C9 amended: the BlobNotFound error carries the template identifier and the
\* offending blob id, its message names that blob id and nothing else, and
\* the status is 400
C9_NamesTemplateAndBlob ==
  \A r \in Workers :
    Responded(r, "BlobNotFound") =>
      /\ req[r].status = BAD_REQUEST
      /\ req[r].err.template_id = req[r].id
      /\ req[r].err.blob_id = req[r].blob_inputs[1].blob_id
      /\ TemplateError_message(req[r].err) =
           [templates |-> {}, blobs |-> {req[r].blob_inputs[1].blob_id}]

\* a request whose second reference is the unknown blob was answered 400
C9_Witness ==
  \E r \in Workers :
    /\ Responded(r, "BlobNotFound")
    /\ req[r].status = BAD_REQUEST
    /\ req[r].i = 2
    /\ req[r].blob_inputs[1] = [key |-> "logo", blob_id |-> UnknownBlob]

C11_ReloadedOnNextUse ==
  [][ \A r, q \in Workers :
        (/\ req[q].kind = "reset" /\ req[q].pc = "done" /\ req[q].status = NO_CONTENT
         /\ req[r].kind = "template" /\ req[r].pc = "acquire"
         /\ req[r].id = req[q].id
         /\ req'[r] # req[r])
          => req'[r].pc # "done" ]_vars

\* C12: a reset answers 204 and removes the entry when its identifier is
\* live, answers 404 and changes nothing when it is not; a reset that follows
\* an answered 204 on the same identifier answers 404 and leaves the registry
\* as the first left it; no other identifier's entry changes
C12_ResetOutcome ==
  [][ \A r \in Workers :
        (req[r].pc = "remove" /\ req'[r] # req[r]) =>
          /\ req'[r].pc = "done"
          /\ IF Has(template_cache, req[r].id)
             THEN /\ req'[r].status = NO_CONTENT
                  /\ DOMAIN template_cache' = DOMAIN template_cache \ {req[r].id}
             ELSE /\ req'[r].status = NOT_FOUND
                  /\ template_cache' = template_cache
          /\ \A id \in DOMAIN template_cache \ {req[r].id} :
               Has(template_cache', id) /\ template_cache'[id] = template_cache[id]
          /\ (\E q \in Workers :
                /\ q # r /\ req[q].kind = "reset" /\ req[q].pc = "done"
                /\ req[q].status = NO_CONTENT /\ req[q].id = req[r].id)
               => (req'[r].status = NOT_FOUND /\ template_cache' = template_cache) ]_vars

\* a second reset of an identifier was answered 404 after the first was
\* answered 204, and the other identifier is still live
C12_Witness ==
  \E r, q \in Workers :
    /\ req[r].kind = "reset" /\ req[r].pc = "done" /\ req[r].status = NO_CONTENT
    /\ req[q].kind = "reset" /\ req[q].pc = "done" /\ req[q].status = NOT_FOUND
    /\ req[q].id = req[r].id
    /\ DOMAIN template_cache = CatalogIds \ {req[r].id}

C14_ExportFailureIs500 ==
  \A r \in Workers :
    (req[r].pc = "done" /\ req[r].exported /\ req[r].status # OK)
      => (req[r].status = INTERNAL_SERVER_ERROR /\ req[r].err.kind = "ExportFailure")

\* C15 as stated: a request that met a durable read error or a durable write
\* error is answered 500
C15_StorageFailureIs500 ==
  \A r \in Workers :
    (req[r].pc = "done"
     /\ (req[r].fault \/ (req[r].kind = "upload" /\ req[r].bid \in BlobIds
                          /\ req[r].status # OK)))
      => req[r].status = INTERNAL_SERVER_ERROR

\* C15 amended: an upload whose write failed is answered 500 and an upload
\* goes on only with its bytes written; a read error on an existing file
\* while a blob reference is resolved is answered BlobNotFound with 400
C15_WriteError500ReadError400 ==
  [][ \A r \in Workers :
        /\ (req[r].pc = "write" /\ req'[r] # req[r]) =>
             IF Has(disk', req[r].bid) /\ disk'[req[r].bid] = req[r].data
             THEN req'[r].pc = "cache"
             ELSE req'[r].pc = "done" /\ req'[r].status = INTERNAL_SERVER_ERROR
        /\ (req[r].pc = "read" /\ Has(disk, CurrentBlob(req[r]).blob_id)
            /\ req'[r].pc = "done")
             => /\ req'[r].status = BAD_REQUEST
                /\ req'[r].err.kind = "BlobNotFound"
                /\ req'[r].fault ]_vars

\* the file of a blob exists, its read failed and the request was answered
\* 400; an upload whose write failed was answered 500
C15_Witness ==
  \E r, q \in Workers :
    /\ Responded(r, "BlobNotFound") /\ req[r].fault
    /\ Has(disk, req[r].err.blob_id)
    /\ req[r].status = BAD_REQUEST
    /\ req[q].kind = "upload" /\ req[q].pc = "done"
    /\ req[q].status = INTERNAL_SERVER_ERROR

\* C16: every listing is the configured catalog, in the order of the table,
\* whatever the registry holds
C16_ListIsStatic ==
  \A r \in Workers :
    (req[r].kind = "list" /\ req[r].pc = "done")
      => /\ req[r].status = OK
         /\ req[r].body = [k \in 1..CatalogSize |-> TEMPLATES[k]]

\* a listing answered after a reset names the identifier the reset removed,
\* and one that never loaded
C16_Witness ==
  \E r, q \in Workers :
    /\ req[r].kind = "list" /\ req[r].pc = "done"
    /\ req[q].kind = "reset" /\ req[q].pc = "done" /\ req[q].status = NO_CONTENT
    /\ \E k \in 1..Len(req[r].body) : req[r].body[k] = req[q].id
    /\ template_cache = EmptyMap

\* the with_input calls a handler makes for the first n JSON inputs and the
\* first n blob inputs of its payload
JsonCalls(a, n) ==
  [k \in 1..n |-> OicanaJsonInput(a.json_inputs[k].key, to_string(a.json_inputs[k].value))]
BlobCalls(a, n) ==
  [k \in 1..n |-> OicanaBlobInput(a.blob_inputs[k].key, disk[a.blob_inputs[k].blob_id])]

LastIndex(a, key) ==
  LET at == { k \in 1..Len(a.json_inputs) : a.json_inputs[k].key = key }
  IN IF at = {} THEN 0 ELSE CHOOSE k \in at : \A m \in at : m <= k

\* C17: the inputs are applied in list order, the JSON inputs first and the
\* blob inputs after them; the blob loop starts with every JSON input applied
\* and the compile call is made with every input applied; the input set handed
\* to the compile call holds, for each key of the JSON inputs, the text of the
\* last JSON input with that key, and no other JSON key
C17_LastJsonValueWins ==
  /\ assembly.calls = JsonCalls(assembly, assembly.j) \o BlobCalls(assembly, assembly.i)
  /\ assembly.pc = "json" => assembly.i = 0
  /\ (assembly.pc \in {"blob", "compile"} \/ assembly.i > 0)
       => assembly.j = Len(assembly.json_inputs)
  /\ assembly.pc = "compile" => assembly.i = Len(assembly.blob_inputs)
  /\ assembly.handed # << >> =>
       /\ assembly.j = Len(assembly.json_inputs)
       /\ assembly.i = Len(assembly.blob_inputs)
       /\ \A key \in JsonKeys :
            IF LastIndex(assembly, key) = 0
            THEN ~Has(assembly.handed[1].json, key)
            ELSE /\ Has(assembly.handed[1].json, key)
                 /\ assembly.handed[1].json[key] =
                      to_string(assembly.json_inputs[LastIndex(assembly, key)].value)

\* two JSON inputs with the key "data", the number 1 and then the string "1",
\* and a resolved blob input: the compile call got the quoted string
C17_Witness ==
  /\ assembly.pc = "done"
  /\ assembly.handed # << >>
  /\ assembly.json_inputs =
       << [key |-> "data", value |-> [t |-> "number", v |-> "1"]],
          [key |-> "data", value |-> [t |-> "string", v |-> "1"]] >>
  /\ Len(assembly.blob_inputs) = 1
  /\ assembly.handed[1].json["data"] = "\"1\""
  /\ Len(assembly.calls) = 3

\* C18: while warm-up runs the registry holds exactly the loadable archives
\* among the entries already visited, so a failed entry stops nothing after
\* it; warm-up always returns, and then the registry holds exactly the
\* identifiers whose archive opened and loaded, as the one-pass summary
\* warmed_up_templates says for the catalog; the keys are catalog identifiers
C18_WarmUpBestEffort ==
  /\ DOMAIN template_cache \subseteq TemplateIds
  /\ startup.pc = "warmup" =>
       /\ startup.k \in 1..(Len(TEMPLATES) + 1)
       /\ DOMAIN template_cache =
            { TEMPLATES[j] : j \in { i \in 1..(startup.k - 1) :
                                       startup.archives[TEMPLATES[i]] = "good" } }
  /\ startup.pc = "serving" =>
       /\ DOMAIN template_cache = Loadable(startup.archives)
       /\ [id \in DOMAIN template_cache \cap CatalogIds |-> template_cache[id]]
            = warmed_up_templates(Loadable(startup.archives) \cap CatalogIds)

\* the first archive is missing and the second corrupt, and the process
\* serves with the last entry of the table loaded
C18_Witness ==
  /\ startup.pc = "serving"
  /\ startup.archives[TEMPLATES[1]] = "missing"
  /\ startup.archives[TEMPLATES[2]] = "corrupt"
  /\ Has(template_cache, TEMPLATES[Len(TEMPLATES)])
  /\ ~Has(template_cache, TEMPLATES[1])

\* C19: no step of a compile, preview or certificate request adds or removes
\* a registry entry; the only change is that the compile call marks the
\* instance of its own identifier, and the mark stays for later requests
C19_RegistryFrame ==
  [][ \A r \in Workers :
        (req[r].kind \in {"template", "certificate"} /\ req'[r] # req[r]) =>
          /\ DOMAIN template_cache' = DOMAIN template_cache
          /\ \A id \in DOMAIN template_cache :
               template_cache'[id].dirty =
                 (template_cache[id].dirty \/ (id = req[r].id /\ req[r].pc = "compile")) ]_vars

\* a request holds the instance a failed compile of an earlier request left
\* behind
C19_Witness ==
  \E r, q \in Workers :
    /\ Responded(q, "CompilationFailure")
    /\ req[r].kind = "certificate" /\ req[r].pc = "compile" /\ req[r].mark
    /\ req[r].id = req[q].id
    /\ req[q].kind = "template"

\* C20: a request whose identifier is absent answers NotFound with 404 in the
\* step that looks it up, and that step touches neither blob tier nor the
\* registry; a blob reference is resolved only while the handle is held on a
\* live instance and before any compile; the compile call follows the lookup
\* or the last resolved reference; the export follows a successful compile
C20_StepsInOrder ==
  [][ \A r \in Workers :
        /\ (req[r].kind = "template" /\ req[r].pc = "acquire"
            /\ ~Has(template_cache, req[r].id) /\ req'[r] # req[r])
             => /\ req'[r].pc = "done"
                /\ req'[r].status = NOT_FOUND
                /\ req'[r].err.kind = "NotFound"
                /\ storage' = storage /\ disk' = disk
                /\ template_cache' = template_cache
                /\ shardLock' = shardLock
        /\ req'[r].pc \in {"check", "read", "insert"}
             => /\ shardLock'[shardOf'[req'[r].id]] = r
                /\ Has(template_cache', req'[r].id)
                /\ ~req'[r].compiled
        /\ (req'[r].pc = "compile" /\ req[r].pc # "compile")
             => req[r].pc \in {"acquire", "check", "insert"}
        /\ (req'[r].pc = "export" /\ req[r].pc # "export")
             => (req[r].pc = "compile" /\ req'[r].compiled /\ req'[r].err = NoErr)
        /\ (req'[r].exported /\ ~req[r].exported) => req[r].pc = "export" ]_vars

\* a request on an absent identifier was answered 404 while a blob it could
\* have referred to is in neither tier and another is on disk but not cached
C20_Witness ==
  \E r \in Workers :
    /\ req[r].kind = "template" /\ Responded(r, "NotFound")
    /\ req[r].status = NOT_FOUND
    /\ ~Has(disk, UnknownBlob) /\ ~Has(storage, UnknownBlob)
    /\ \E b \in DOMAIN disk : ~Has(storage, b)

\* a request that has arrived and has not returned yet
InFlight(r) == req[r].pc \notin {"idle", "done"}

C22_NoReadUnderHandle ==
  \A r, q \in Workers :
    (req[r].pc = "read" /\ shardLock[Shard(req[r].id)] = r /\ q # r)
      => ~(req[q].pc \in {"acquire", "remove"} /\ Shard(req[q].id) = Shard(req[r].id))

C24_CacheEmptyAfterStart ==
  [][ Restart => storage' = EmptyMap ]_vars

\* C24 amended: the cache a (re)start produces holds nothing but the default
\* blob, with the bytes of its file, and holds it only if the file exists;
\* within a run an entry appears only through the cache insertion of an
\* upload or of a read that missed
C24_CacheAfterStart ==
  /\ DOMAIN storage \subseteq {DEFAULT_BLOB_UUID}
  /\ \A b \in DOMAIN storage : Has(disk, b) /\ storage[b] = disk[b]
  /\ [][ IF Restart
         THEN /\ DOMAIN storage' \subseteq {DEFAULT_BLOB_UUID}
              /\ \A b \in DOMAIN storage' : Has(disk, b) /\ storage'[b] = disk[b]
         ELSE \A b \in DOMAIN storage' \ DOMAIN storage :
                \E r \in Workers :
                  \/ req[r].kind = "upload" /\ req[r].pc = "cache" /\ req[r].bid = b
                  \/ req[r].pc = "insert" /\ CurrentBlob(req[r]).blob_id = b ]_vars

\* after an answered upload the process has started again: the cache holds
\* the default blob and not the uploaded one
C24_Witness ==
  /\ \A r \in Workers : req[r].pc = "idle"
  /\ uploaded # EmptyMap
  /\ DOMAIN storage = {DEFAULT_BLOB_UUID}

====
